---- MODULE Spec2Model ----
(***************************************************************************)
(* Model of the Story CLI character persistence layer                      *)
(* (story_cli/services/character_service.py, story_cli/models/character.py,*)
(* story_cli/utils/validation.py) and of its project service               *)
(* (story_cli/services/project_service.py, story_cli/models/project.py),   *)
(* of two processes creating characters in one project, and of the         *)
(* availability cache of the assistant (story_cli/services/llm_service.py).*)
(*                                                                         *)
(* Text is a sequence of one-character strings, so that str.lower(),       *)
(* str.replace() and sanitize_for_filesystem() are computed character by   *)
(* character.  An Optional value is <<>> (None) or <<v>>.                  *)
(*                                                                         *)
(* Left out: the created_at/updated_at timestamps and basics.gender, which *)
(* no store decision reads, and the created_at and last_modified times of  *)
(* a project.                                                              *)
(***************************************************************************)
EXTENDS Integers, Sequences, FiniteSets, TLC

VARIABLES
    files,      \* story_data/characters/<dir>/description.json, per directory
    index_file, \* story_data/characters_index.json
    last,       \* the last store call: operation, arguments and outcome
    deleted,    \* lowercased names on which delete_character has succeeded
    projects,   \* the parent directory: what each project path holds
    procs,      \* the create_character calls in flight, one per process
    llm         \* the assistant's service object and the requests it sent

vars == <<files, index_file, last, deleted, projects, procs, llm>>

-----------------------------------------------------------------------------
(* Bounds *)

\* Longest relationships list of a record handed to the store.
MaxRels == 1

-----------------------------------------------------------------------------
(* Text *)

\* Two case variants of one name, a third name that differs from them only
\* by an apostrophe, and an unrelated name that contains a space.
Names ==
    { <<"A", "l">>, <<"a", "l">>, <<"A", "'", "l">>, <<"B", " ", "o">> }

\* Names a relationship may point at (a relationship target is free text).
RelTargets == { <<"a", "l">>, <<"b", " ", "o">> }

\* str.lower() on one character of the model's alphabet.
LowerChar(ch) ==
    CASE ch = "A" -> "a"
      [] ch = "B" -> "b"
      [] OTHER -> ch

\* str.lower()
Lower(s) == [i \in 1..Len(s) |-> LowerChar(s[i])]

\* str.replace(" ", "_")
SpacesToUnderscores(s) == [i \in 1..Len(s) |-> IF s[i] = " " THEN "_" ELSE s[i]]

\* str.replace("'", "")
RemoveApostrophes(s) == SelectSeq(s, LAMBDA ch : ch # "'")

\* sanitize_for_filesystem without the .lower()
SanitizeKeepCase(name) == RemoveApostrophes(SpacesToUnderscores(name))

\* validation.py: name.lower().replace(" ", "_").replace("'", "")
sanitize_for_filesystem(name) ==
    RemoveApostrophes(SpacesToUnderscores(Lower(name)))

\* Every directory name a character directory can have.
Dirs == { sanitize_for_filesystem(n) : n \in Names }

-----------------------------------------------------------------------------
(* Character records (models/character.py) *)

None == <<>>
Some(v) == <<v>>

\* One filled-in value per optional section; a section is None or this value.
Appearance1 ==
    [ hair |-> Some([color |-> <<"black">>, style |-> None]),
      eyes |-> Some([color |-> <<"brown">>]),
      distinctive_features |-> << <<"B", " ", "a">> >> ]

Personality1 == [primary_traits |-> << <<"curious">> >>]

Backstory1 == [summary |-> <<"student">>]

\* The optional sections and basics other than the name, as the caller
\* filled them in.
Profiles ==
    { [role |-> "protagonist", age |-> Some(25), appearance |-> Some(Appearance1),
       personality |-> None, backstory |-> None],
      [role |-> "supporting", age |-> None, appearance |-> None,
       personality |-> Some(Personality1), backstory |-> Some(Backstory1)] }

Relationship(target) == [target_character |-> target, type |-> "friend"]

RECURSIVE SeqsUpTo(_, _)
\* All sequences over S of length at most n.
SeqsUpTo(S, n) ==
    IF n = 0 THEN { <<>> }
    ELSE LET shorter == SeqsUpTo(S, n - 1)
         IN  shorter \cup { Append(q, x) : q \in shorter, x \in S }

RelLists == SeqsUpTo({ Relationship(t) : t \in RelTargets }, MaxRels)

Character(name, p, rels, lora) ==
    [ basics |-> [name |-> name, age |-> p.age, role |-> p.role],
      appearance |-> p.appearance,
      personality |-> p.personality,
      backstory |-> p.backstory,
      relationships |-> rels,
      lora_trigger |-> lora ]

\* The records a caller hands to create_character and update_character:
\* every name with every profile; the profile without an appearance also
\* with every relationships list.
Inputs ==
    { Character(n, p, <<>>, None) : n \in Names, p \in Profiles }
    \cup { Character(n, p, rels, None) :
              n \in Names, p \in { q \in Profiles : q.appearance = None },
              rels \in RelLists }

RECURSIVE Join(_, _)
\* sep.join(parts)
Join(parts, sep) ==
    IF parts = <<>> THEN <<>>
    ELSE IF Len(parts) = 1 THEN parts[1]
    ELSE parts[1] \o sep \o Join(Tail(parts), sep)

\* list[:n]
Take(s, n) == SubSeq(s, 1, IF Len(s) < n THEN Len(s) ELSE n)

\* Character.generate_lora_trigger
generate_lora_trigger(c) ==
    LET nameTok == SpacesToUnderscores(Lower(c.basics.name))
    IN  IF c.appearance = None THEN nameTok
        ELSE
          LET app == c.appearance[1]
              hair_parts ==
                  IF app.hair = None THEN <<>>
                  ELSE (IF app.hair[1].color # None THEN <<app.hair[1].color>> ELSE <<>>)
                       \o (IF app.hair[1].style # None THEN <<app.hair[1].style>> ELSE <<>>)
              hair ==
                  IF hair_parts = <<>> THEN <<>>
                  ELSE << Join(hair_parts, <<"_">>) \o <<"_hair">> >>
              eyes ==
                  IF app.eyes # None /\ app.eyes[1].color # None
                  THEN << app.eyes[1].color \o <<"_eyes">> >>
                  ELSE <<>>
              feats == Take(app.distinctive_features, 2)
              features == [i \in 1..Len(feats) |-> SpacesToUnderscores(Lower(feats[i]))]
          IN  Join(<<nameTok>> \o hair \o eyes \o features, <<", ">>)

\* Character.update_lora_trigger (model validator, runs on construction and on parse)
update_lora_trigger(c) ==
    IF c.appearance # None /\ c.lora_trigger = None
    THEN [c EXCEPT !.lora_trigger = generate_lora_trigger(c)]
    ELSE c

-----------------------------------------------------------------------------
(* Files *)

NoDir == [kind |-> "nodir"]           \* the directory does not exist
EmptyDir == [kind |-> "emptydir"]     \* a directory without description.json
NoFile == [kind |-> "nofile"]         \* the file does not exist
Garbage == [kind |-> "garbage"]       \* a file that does not parse

\* model_dump_json: the JSON document of a record
model_dump_json(c) == [kind |-> "json", doc |-> c]

\* Character.model_validate_json: the record, or a pydantic validation error
model_validate_json(content) ==
    IF content.kind = "json"
    THEN [err |-> "ok", value |-> update_lora_trigger(content.doc)]
    ELSE [err |-> "ValidationError"]

\* The file system under story_data/ as one value.
FS == [files |-> files, index |-> index_file]

DirExists(fs, d) == d \in DOMAIN fs.files /\ fs.files[d].kind # "nodir"

\* <dir>/description.json exists
FileExists(fs, d) ==
    d \in DOMAIN fs.files /\ fs.files[d].kind \in {"json", "garbage"}

-----------------------------------------------------------------------------
(* Character index (models/character.py) *)

\* CharacterService._load_index: a missing index file is an empty index
_load_index(fs) ==
    IF fs.index.kind = "nofile" THEN <<>> ELSE fs.index.characters

\* CharacterService._save_index
_save_index(fs, characters) ==
    [fs EXCEPT !.index = [kind |-> "json", characters |-> characters]]

\* f"{CHARACTERS_DIR}/{dir}"
PathOf(d) == <<"characters", d>>

\* project_path / STORY_DATA_DIR / entry.path: the directory a path names
DirOfPath(path) == path[2]

\* An index entry that leaves the age out
EntryWithoutAge(c, d) ==
    [name |-> c.basics.name, role |-> c.basics.role, age |-> None,
     path |-> PathOf(d)]

\* An index entry whose path is built from the name as given
EntryPathFromName(c, d) ==
    [name |-> c.basics.name, role |-> c.basics.role, age |-> c.basics.age,
     path |-> PathOf(c.basics.name)]

CharacterIndexEntry(c, d) ==
    [name |-> c.basics.name, role |-> c.basics.role, age |-> c.basics.age,
     path |-> PathOf(d)]

\* CharacterIndex.get_entry: the first entry whose lowercased name matches
get_entry(characters, name) ==
    LET hits == { i \in 1..Len(characters) : Lower(characters[i].name) = Lower(name) }
    IN  IF hits = {} THEN None
        ELSE Some(characters[CHOOSE i \in hits : \A j \in hits : i <= j])

\* add_entry that appends without removing the entry of the same name
AddEntryNoReplace(characters, entry) == Append(characters, entry)

\* CharacterIndex.add_entry
add_entry(characters, entry) ==
    Append(SelectSeq(characters, LAMBDA e : Lower(e.name) # Lower(entry.name)), entry)

\* CharacterIndex.remove_entry
remove_entry(characters, name) ==
    SelectSeq(characters, LAMBDA e : Lower(e.name) # Lower(name))

-----------------------------------------------------------------------------
(* Character service (services/character_service.py), as functions of the   *)
(* file system.  Each returns the outcome (err), the value returned (ret)   *)
(* and the file system the call leaves behind (fs).  The project directory  *)
(* and story_data/characters exist throughout, so _validate_project passes. *)

\* CharacterService._get_character_dir
_get_character_dir(name) == sanitize_for_filesystem(name)

\* get_character that trusts the index and has no direct lookup
GetCharacterIndexOnly(fs, name) ==
    LET entry == get_entry(_load_index(fs), name)
    IN  IF entry # None /\ FileExists(fs, DirOfPath(entry[1].path))
        THEN model_validate_json(fs.files[DirOfPath(entry[1].path)])
        ELSE [err |-> "CharacterNotFoundError"]

\* CharacterService.get_character
get_character(fs, name) ==
    LET entry == get_entry(_load_index(fs), name)
        direct == _get_character_dir(name)
    IN  IF entry # None /\ FileExists(fs, DirOfPath(entry[1].path))
        THEN model_validate_json(fs.files[DirOfPath(entry[1].path)])
        ELSE IF FileExists(fs, direct)
        THEN model_validate_json(fs.files[direct])
        ELSE [err |-> "CharacterNotFoundError"]

\* CharacterService.character_exists: the index alone decides
character_exists(fs, name) == get_entry(_load_index(fs), name) # None

\* update_character, lines 173-183: the directory whose description.json
\* is overwritten, or None when no file is found
UpdateTarget(fs, name) ==
    LET direct == _get_character_dir(name)
        entry == get_entry(_load_index(fs), name)
    IN  IF FileExists(fs, direct) THEN Some(direct)
        ELSE IF entry # None /\ FileExists(fs, DirOfPath(entry[1].path))
        THEN Some(DirOfPath(entry[1].path))
        ELSE None

\* update_character that computes the trigger only when the record has none
UpdateKeepsSuppliedTrigger(fs, character) ==
    LET name == character.basics.name
        target == UpdateTarget(fs, name)
        c == IF character.lora_trigger = None
             THEN [character EXCEPT !.lora_trigger = generate_lora_trigger(character)]
             ELSE character
    IN  IF target = None
        THEN [err |-> "CharacterNotFoundError", fs |-> fs]
        ELSE
          LET written == [fs EXCEPT !.files[target[1]] = model_dump_json(c)]
              entry == CharacterIndexEntry(c, _get_character_dir(name))
          IN  [err |-> "ok",
               fs |-> _save_index(written, add_entry(_load_index(written), entry))]

\* CharacterService.update_character
update_character(fs, character) ==
    LET name == character.basics.name
        target == UpdateTarget(fs, name)
        c == IF character.appearance # None
             THEN [character EXCEPT !.lora_trigger = generate_lora_trigger(character)]
             ELSE character
    IN  IF target = None
        THEN [err |-> "CharacterNotFoundError", fs |-> fs]
        ELSE
          LET written == [fs EXCEPT !.files[target[1]] = model_dump_json(c)]
              entry == CharacterIndexEntry(c, _get_character_dir(name))
          IN  [err |-> "ok",
               fs |-> _save_index(written, add_entry(_load_index(written), entry))]

\* create_character that creates the directory and the index entry but
\* never writes description.json
CreateWithoutRecordFile(fs, character) ==
    LET char_dir == _get_character_dir(character.basics.name)
    IN  IF DirExists(fs, char_dir)
        THEN [err |-> "CharacterExistsError", fs |-> fs]
        ELSE
          LET made == [fs EXCEPT !.files[char_dir] = EmptyDir]
              entry == CharacterIndexEntry(character, char_dir)
          IN  [err |-> "ok",
               fs |-> _save_index(made, add_entry(_load_index(made), entry))]

\* create_character without the existence check (mkdir with exist_ok)
CreateOverwrites(fs, character) ==
    LET char_dir == _get_character_dir(character.basics.name)
        c == IF character.lora_trigger = None
             THEN [character EXCEPT !.lora_trigger = generate_lora_trigger(character)]
             ELSE character
        written == [fs EXCEPT !.files[char_dir] = model_dump_json(c)]
        entry == CharacterIndexEntry(c, char_dir)
    IN  [err |-> "ok",
         fs |-> _save_index(written, add_entry(_load_index(written), entry))]

\* CharacterService.create_character
create_character(fs, character) ==
    LET name == character.basics.name
        char_dir == _get_character_dir(name)
        c == IF character.lora_trigger = None
             THEN [character EXCEPT !.lora_trigger = generate_lora_trigger(character)]
             ELSE character
    IN  IF DirExists(fs, char_dir)
        THEN [err |-> "CharacterExistsError", fs |-> fs]
        ELSE
          LET written == [fs EXCEPT !.files[char_dir] = model_dump_json(c)]
              entry == CharacterIndexEntry(c, char_dir)
          IN  [err |-> "ok",
               fs |-> _save_index(written, add_entry(_load_index(written), entry))]

\* any(rel.target_character.lower() == name.lower() for rel in relationships)
Targets(relationships, name) ==
    \E i \in 1..Len(relationships) :
        Lower(relationships[i].target_character) = Lower(name)

RECURSIVE ScanDependencies(_, _, _)
\* get_relationship_dependencies, the loop over index.characters
ScanDependencies(fs, characters, name) ==
    IF characters = <<>> THEN <<>>
    ELSE
      LET entry == Head(characters)
          rest == ScanDependencies(fs, Tail(characters), name)
          got == get_character(fs, entry.name)
      IN  IF Lower(entry.name) = Lower(name) THEN rest
          ELSE IF got.err = "ok" /\ Targets(got.value.relationships, name)
          THEN <<entry.name>> \o rest
          ELSE rest

\* CharacterService.get_relationship_dependencies
get_relationship_dependencies(fs, name) ==
    ScanDependencies(fs, _load_index(fs), name)

\* dep_char.relationships without the entries that target name
StripRelationships(c, name) ==
    [c EXCEPT !.relationships =
        SelectSeq(@, LAMBDA r : Lower(r.target_character) # Lower(name))]

RECURSIVE StripDependents(_, _, _)
\* delete_character, lines 244-254: the loop over the dependents; a
\* dependent that is not found is skipped
StripDependents(fs, dependencies, name) ==
    IF dependencies = <<>> THEN fs
    ELSE
      LET got == get_character(fs, Head(dependencies))
          upd == update_character(fs, StripRelationships(got.value, name))
          after == IF got.err = "ok" /\ upd.err = "ok" THEN upd.fs ELSE fs
      IN  StripDependents(after, Tail(dependencies), name)

\* delete_character, lines 227-235: the directory that is removed, or None
DeleteTarget(fs, name) ==
    LET direct == _get_character_dir(name)
        entry == get_entry(_load_index(fs), name)
    IN  IF DirExists(fs, direct) THEN Some(direct)
        ELSE IF entry # None /\ DirExists(fs, DirOfPath(entry[1].path))
        THEN Some(DirOfPath(entry[1].path))
        ELSE None

\* delete_character that strips the dependents before it looks at force
DeleteStripsBeforeForceCheck(fs, name, force) ==
    LET target == DeleteTarget(fs, name)
        dependencies == get_relationship_dependencies(fs, name)
        stripped == StripDependents(fs, dependencies, name)
    IN  IF target = None
        THEN [err |-> "CharacterNotFoundError", ret |-> <<>>, fs |-> fs]
        ELSE IF dependencies # <<>> /\ ~force
        THEN [err |-> "RelationshipDependencyError", ret |-> dependencies,
              fs |-> stripped]
        ELSE
          LET removed == [stripped EXCEPT !.files[target[1]] = NoDir]
          IN  [err |-> "ok", ret |-> dependencies,
               fs |-> _save_index(removed, remove_entry(_load_index(removed), name))]

\* delete_character that updates the index but leaves the directory
DeleteKeepsDirectory(fs, name, force) ==
    LET target == DeleteTarget(fs, name)
        dependencies == get_relationship_dependencies(fs, name)
    IN  IF target = None
        THEN [err |-> "CharacterNotFoundError", ret |-> <<>>, fs |-> fs]
        ELSE IF dependencies # <<>> /\ ~force
        THEN [err |-> "RelationshipDependencyError", ret |-> dependencies, fs |-> fs]
        ELSE
          LET stripped == StripDependents(fs, dependencies, name)
          IN  [err |-> "ok", ret |-> dependencies,
               fs |-> _save_index(stripped, remove_entry(_load_index(stripped), name))]

\* CharacterService.delete_character
delete_character(fs, name, force) ==
    LET target == DeleteTarget(fs, name)
        dependencies == get_relationship_dependencies(fs, name)
    IN  IF target = None
        THEN [err |-> "CharacterNotFoundError", ret |-> <<>>, fs |-> fs]
        ELSE IF dependencies # <<>> /\ ~force
        THEN [err |-> "RelationshipDependencyError", ret |-> dependencies, fs |-> fs]
        ELSE
          LET stripped == StripDependents(fs, dependencies, name)
              removed == [stripped EXCEPT !.files[target[1]] = NoDir]
          IN  [err |-> "ok", ret |-> dependencies,
               fs |-> _save_index(removed, remove_entry(_load_index(removed), name))]

RECURSIVE ScanDirectories(_, _, _)
\* rebuild_index, the loop over characters_dir.iterdir() in the order given
ScanDirectories(fs, order, characters) ==
    IF order = <<>> THEN characters
    ELSE
      LET d == Head(order)
          parsed == model_validate_json(fs.files[d])
          next == IF FileExists(fs, d) /\ parsed.err = "ok"
                  THEN add_entry(characters, CharacterIndexEntry(parsed.value, d))
                  ELSE characters
      IN  ScanDirectories(fs, Tail(order), next)

\* rebuild_index that adds to the entries already in the index
RebuildKeepsOldEntries(fs, order) ==
    [err |-> "ok",
     fs |-> _save_index(fs, ScanDirectories(fs, order, _load_index(fs)))]

\* CharacterService.rebuild_index; iterdir() yields the directories in an
\* order the file system chooses
rebuild_index(fs, order) ==
    [err |-> "ok", fs |-> _save_index(fs, ScanDirectories(fs, order, <<>>))]

\* The orders in which iterdir() can yield the existing directories.
DirOrders(fs) ==
    LET present == { d \in DOMAIN fs.files : DirExists(fs, d) }
    IN  { o \in SeqsUpTo(present, Cardinality(present)) :
            Len(o) = Cardinality(present) /\ { o[i] : i \in 1..Len(o) } = present }

-----------------------------------------------------------------------------
(* The store as a state machine: one action per service call *)

Call(op, name, force, err, ret) ==
    [op |-> op, name |-> name, force |-> force, err |-> err, ret |-> ret]

Init ==
    /\ files = [d \in Dirs |-> NoDir]
    \* create_project writes an empty index; a bare skeleton has none
    /\ index_file \in { NoFile, [kind |-> "json", characters |-> <<>>] }
    /\ last = Call("none", <<>>, FALSE, "ok", <<>>)
    /\ deleted = {}
    /\ procs = <<>>
    /\ llm = <<>>
    \* the character store works inside one project; the parent directory
    \* is the project service's concern
    /\ projects = <<>>

Commit(fs) ==
    /\ files' = fs.files
    /\ index_file' = fs.index
    /\ UNCHANGED <<projects, procs, llm>>

CreateCharacter(c) ==
    \E r \in { create_character(FS, c) } :
        /\ Commit(r.fs)
        /\ last' = Call("create", c.basics.name, FALSE, r.err, <<>>)

UpdateCharacter(c) ==
    \E r \in { update_character(FS, c) } :
        /\ Commit(r.fs)
        /\ last' = Call("update", c.basics.name, FALSE, r.err, <<>>)

DeleteCharacter(name, force) ==
    \E r \in { delete_character(FS, name, force) } :
        /\ Commit(r.fs)
        /\ last' = Call("delete", name, force, r.err, r.ret)

RebuildIndex ==
    \E order \in DirOrders(FS) :
        \E r \in { rebuild_index(FS, order) } :
            /\ Commit(r.fs)
            /\ last' = Call("rebuild", <<>>, FALSE, r.err, <<>>)

\* deleted after a call: a successful delete_character adds its name
Track ==
    deleted' = IF last'.op = "delete" /\ last'.err = "ok"
               THEN deleted \cup { Lower(last'.name) }
               ELSE deleted

\* The store under every call with every input.  The history variable
\* deleted belongs to SpecLifecycle and stays empty here.
Next ==
    \/ \E c \in Inputs : CreateCharacter(c) /\ UNCHANGED deleted
    \/ \E c \in Inputs : UpdateCharacter(c) /\ UNCHANGED deleted
    \/ \E name \in Names, force \in BOOLEAN :
           DeleteCharacter(name, force) /\ UNCHANGED deleted
    \/ RebuildIndex /\ UNCHANGED deleted

Spec == Init /\ [][Next]_vars

\* Records without relationships: what a character's lifecycle needs.
LifecycleInputs == { c \in Inputs : c.relationships = <<>> }

NextLifecycle ==
    \/ \E c \in LifecycleInputs : CreateCharacter(c) /\ Track
    \/ \E c \in LifecycleInputs : UpdateCharacter(c) /\ Track
    \/ \E name \in Names, force \in BOOLEAN : DeleteCharacter(name, force) /\ Track
    \/ RebuildIndex /\ Track

SpecLifecycle == Init /\ [][NextLifecycle]_vars

-----------------------------------------------------------------------------
(* get_character over file systems the store did not write alone: an index *)
(* some earlier call wrote, and directories removed, restored or edited    *)
(* since (tests/conftest.py builds a project without an index file).       *)

\* Most entries of an index file drawn for SpecLookup.
MaxIndexEntries == 2

LookupRecords ==
    { Character(n, p, <<>>, None) :
        n \in Names, p \in { q \in Profiles : q.appearance = None } }

LookupEntries ==
    { CharacterIndexEntry(c, d) : c \in LookupRecords, d \in Dirs }

LookupFiles ==
    [ Dirs -> { NoDir, EmptyDir, Garbage }
              \cup { model_dump_json(c) : c \in LookupRecords } ]

LookupIndexes ==
    { NoFile }
    \cup { [kind |-> "json", characters |-> q] :
             q \in { e \in SeqsUpTo(LookupEntries, MaxIndexEntries) :
                       \A i, j \in 1..Len(e) :
                           Lower(e[i].name) = Lower(e[j].name) => i = j } }

InitLookup ==
    /\ files \in LookupFiles
    /\ index_file \in LookupIndexes
    /\ last = Call("none", <<>>, FALSE, "ok", <<>>)
    /\ deleted = {}
    /\ procs = <<>>
    /\ llm = <<>>
    \* the character store works inside one project; the parent directory
    \* is the project service's concern
    /\ projects = <<>>

\* A get_character call; ret is the record returned, if any
GetCharacter(name) ==
    \E r \in { get_character(FS, name) } :
        /\ last' = Call("get", name, FALSE, r.err,
                        IF r.err = "ok" THEN <<r.value>> ELSE <<>>)
        /\ UNCHANGED <<files, index_file, deleted, projects, procs, llm>>

NextLookup == \E name \in Names : GetCharacter(name)

SpecLookup == InitLookup /\ [][NextLookup]_vars

-----------------------------------------------------------------------------
(* Claims *)

\* The name of the record stored in directory d (d holds a parseable record).
StoredName(fs, d) == fs.files[d].doc.basics.name

\* The call that just returned was delete_character(name, force=True) and
\* it succeeded.
ForcedDeleteReturned(call) ==
    call.op = "delete" /\ call.force /\ call.err = "ok"

\* C1: after delete_character(name, force=True) returns, the directory the
\* name resolved to is gone, the index has no entry for the character that
\* was stored there (under the name given or under the stored name), no
\* dependent still has a relationship that targets name, and the returned
\* list is the list of dependents computed before the deletion.
C1_ForcedDeleteRemovesEverything ==
    [][ ForcedDeleteReturned(last') =>
          LET name == last'.name
              target == DeleteTarget(FS, name)[1]
              dependents == get_relationship_dependencies(FS, name)
              entries == _load_index(FS')
          IN  /\ ~DirExists(FS', target)
              /\ get_entry(entries, name) = None
              /\ get_entry(entries, StoredName(FS, target)) = None
              /\ \A i \in 1..Len(dependents) :
                    LET got == get_character(FS', dependents[i])
                    IN  got.err = "ok" => ~Targets(got.value.relationships, name)
              /\ last'.ret = dependents
      ]_vars

\* C1, the case reached: a forced delete has returned a non-empty list of
\* dependents.
C1_Witness == ForcedDeleteReturned(last) /\ last.ret # <<>>

\* Some other indexed character has a relationship that targets name.
ReferencedByAnother(fs, name) ==
    \E i \in 1..Len(_load_index(fs)) :
        LET entry == _load_index(fs)[i]
            got == get_character(fs, entry.name)
        IN  /\ Lower(entry.name) # Lower(name)
            /\ got.err = "ok"
            /\ Targets(got.value.relationships, name)

\* C2: delete_character(name, force=False) on an existing character that
\* another indexed character references fails with
\* RelationshipDependencyError, carries exactly the names that
\* get_relationship_dependencies(name) returns, and changes no record
\* file, no directory and not the index.
C2_UnforcedDeleteIsRefused ==
    [][ ( /\ last'.op = "delete"
          /\ ~last'.force
          /\ DeleteTarget(FS, last'.name) # None
          /\ ReferencedByAnother(FS, last'.name) )
        => /\ last'.err = "RelationshipDependencyError"
           /\ last'.ret = get_relationship_dependencies(FS, last'.name)
           /\ last'.ret # <<>>
           /\ files' = files
           /\ index_file' = index_file
      ]_vars

\* C2, the case reached: an unforced delete was refused and names a
\* dependent.
C2_Witness ==
    /\ last.op = "delete"
    /\ ~last.force
    /\ last.err = "RelationshipDependencyError"
    /\ last.ret # <<>>
    /\ ReferencedByAnother(FS, last.name)

\* The index has exactly one entry per character directory, and each
\* entry's directory holds a record with the entry's name, role and age.
IndexMatchesDisk(fs) ==
    LET entries == _load_index(fs)
    IN  /\ \A d \in DOMAIN fs.files :
              DirExists(fs, d) =>
                  Cardinality({ i \in 1..Len(entries) : entries[i].path = PathOf(d) }) = 1
        /\ \A i \in 1..Len(entries) :
              LET d == DirOfPath(entries[i].path)
              IN  /\ FileExists(fs, d)
                  /\ fs.files[d].kind = "json"
                  /\ entries[i].name = fs.files[d].doc.basics.name
                  /\ entries[i].role = fs.files[d].doc.basics.role
                  /\ entries[i].age = fs.files[d].doc.basics.age

\* C3: after any sequence of create_character, update_character and
\* delete_character calls the index holds exactly one entry per character
\* directory and each entry's name, role and age are those of the record
\* stored in that directory.
C3_IndexMatchesDisk == IndexMatchesDisk(FS)

\* No two index entries have the same lowercased name.
NoDuplicateNames(characters) ==
    \A i, j \in 1..Len(characters) :
        Lower(characters[i].name) = Lower(characters[j].name) => i = j

\* The call that just returned was a successful create_character or
\* update_character.
UpsertReturned(call) == call.op \in {"create", "update"} /\ call.err = "ok"

\* C4: the index never holds two entries with the same lowercased name, and
\* a successful create_character or update_character leaves the index as it
\* was minus the entries with the new name (lowercased) plus, at the end,
\* one entry with the new name.
C4_OneEntryPerName ==
    /\ [] NoDuplicateNames(_load_index(FS))
    /\ [][ UpsertReturned(last') =>
             LET before == _load_index(FS)
                 after == _load_index(FS')
                 kept == SelectSeq(before, LAMBDA e : Lower(e.name) # Lower(last'.name))
             IN  /\ Len(after) = Len(kept) + 1
                 /\ SubSeq(after, 1, Len(kept)) = kept
                 /\ after[Len(after)].name = last'.name
         ]_vars

\* C4, the case reached: an update has replaced an entry of an index
\* that holds another entry too.
C4_Witness ==
    /\ last.op = "update"
    /\ last.err = "ok"
    /\ Len(_load_index(FS)) >= 2

\* The directories that hold a record stored under exactly this name.
StoredUnder(fs, n) ==
    { d \in DOMAIN fs.files :
        FileExists(fs, d) /\ fs.files[d].kind = "json" /\ StoredName(fs, d) = n }

\* C5: while a record named n is stored, every case variant m of n reaches
\* that record: get_character(m) returns it, update_character and
\* delete_character under m resolve to its directory, and create_character
\* under m fails with CharacterExistsError.
C5_CaseInsensitiveIdentity ==
    \A n \in Names, m \in Names :
        \A d \in StoredUnder(FS, n) :
            Lower(m) = Lower(n) =>
                /\ get_character(FS, m) = model_validate_json(files[d])
                /\ get_character(FS, m).err = "ok"
                /\ UpdateTarget(FS, m) = Some(d)
                /\ DeleteTarget(FS, m) = Some(d)
                /\ \A c \in Inputs :
                      c.basics.name = m =>
                          create_character(FS, c).err = "CharacterExistsError"

\* C5, the case reached: create_character under a case variant of a stored
\* name has just failed with CharacterExistsError.
C5_Witness ==
    /\ last.op = "create"
    /\ last.err = "CharacterExistsError"
    /\ \E n \in Names :
          /\ n # last.name
          /\ Lower(n) = Lower(last.name)
          /\ StoredUnder(FS, n) # {}

\* The step is a successful create_character(c).
Created(c) ==
    /\ last'.op = "create"
    /\ last'.err = "ok"
    /\ last'.name = c.basics.name
    /\ FS' = create_character(FS, c).fs

\* C6: right after a successful create_character(c), get_character of c's
\* name returns a record with c's basics, appearance, personality,
\* backstory and relationships, and with a lora_trigger whenever c has an
\* appearance.
C6_CreateThenGet ==
    [][ \A c \in Inputs :
          Created(c) =>
              LET got == get_character(FS', c.basics.name)
              IN  /\ got.err = "ok"
                  /\ got.value.basics = c.basics
                  /\ got.value.appearance = c.appearance
                  /\ got.value.personality = c.personality
                  /\ got.value.backstory = c.backstory
                  /\ got.value.relationships = c.relationships
                  /\ c.appearance # None => got.value.lora_trigger # None
      ]_vars

\* C6, the case reached: a record with an appearance has just been created
\* and is stored under its name.
C6_Witness ==
    /\ last.op = "create"
    /\ last.err = "ok"
    /\ \E d \in StoredUnder(FS, last.name) :
          /\ files[d].doc.appearance # None
          /\ get_character(FS, last.name).err = "ok"

\* No record is stored under name or a case variant of it.
Absent(fs, name) ==
    \A d \in DOMAIN fs.files :
        (FileExists(fs, d) /\ fs.files[d].kind = "json")
            => Lower(StoredName(fs, d)) # Lower(name)

\* C7: update_character and delete_character under a name no stored record
\* has fail with CharacterNotFoundError and change no record file and no
\* index entry.
C7_AbsentIsNotFound ==
    [][ (last'.op \in {"update", "delete"} /\ Absent(FS, last'.name))
        => /\ last'.err = "CharacterNotFoundError"
           /\ files' = files
           /\ index_file' = index_file
      ]_vars

\* C7, the case reached: an update or delete of an absent name has failed
\* with CharacterNotFoundError while another character is stored.
C7_Witness ==
    /\ last.op \in {"update", "delete"}
    /\ last.err = "CharacterNotFoundError"
    /\ Absent(FS, last.name)
    /\ \E d \in Dirs : FileExists(FS, d)

\* A character with this name (or a case variant of it) is stored.
InCreatedState(fs, name) == ~Absent(fs, name)

\* C8 as stated: once delete_character(name) has succeeded, no state has a
\* character with that name in the created state again.
C8_DeletedIsTerminal ==
    \A n \in Names : Lower(n) \in deleted => ~InCreatedState(FS, n)

\* C8, amended: right after a successful delete_character(name) the name is
\* absent (get_character fails with CharacterNotFoundError and its
\* directory does not exist), update and delete succeed only on a name that
\* resolves, and a directory comes into existence only by a successful
\* create_character of a name that sanitizes to it; deleted is not terminal.
C8_Lifecycle ==
    [][ /\ (last'.op = "delete" /\ last'.err = "ok")
             => /\ get_character(FS', last'.name).err = "CharacterNotFoundError"
                /\ ~DirExists(FS', sanitize_for_filesystem(last'.name))
                /\ DeleteTarget(FS, last'.name) # None
        /\ (last'.op = "update" /\ last'.err = "ok")
             => UpdateTarget(FS, last'.name) # None
        /\ \A d \in Dirs :
             (~DirExists(FS, d) /\ DirExists(FS', d))
                 => /\ last'.op = "create"
                    /\ last'.err = "ok"
                    /\ sanitize_for_filesystem(last'.name) = d
      ]_vars

\* C8, the case reached: a name that was deleted has been created again.
C8_Witness ==
    /\ last.op = "create"
    /\ last.err = "ok"
    /\ Lower(last.name) \in deleted
    /\ InCreatedState(FS, last.name)

\* C9: create_character for a name whose sanitized directory exists fails
\* with CharacterExistsError and leaves the record files and the index as
\* they were.
C9_CreateNeverOverwrites ==
    [][ (last'.op = "create" /\ DirExists(FS, sanitize_for_filesystem(last'.name)))
        => /\ last'.err = "CharacterExistsError"
           /\ files' = files
           /\ index_file' = index_file
      ]_vars

\* C9, the case reached: a create has failed with CharacterExistsError on a
\* directory that holds a record.
C9_Witness ==
    /\ last.op = "create"
    /\ last.err = "CharacterExistsError"
    /\ FileExists(FS, sanitize_for_filesystem(last.name))

\* A parseable record file exists in the directory that name sanitizes to.
DirectRecordExists(fs, name) ==
    /\ FileExists(fs, sanitize_for_filesystem(name))
    /\ model_validate_json(fs.files[sanitize_for_filesystem(name)]).err = "ok"

\* The index entry for name points at a directory without description.json.
EntryIsStale(fs, name) ==
    LET entry == get_entry(_load_index(fs), name)
    IN  entry # None /\ ~FileExists(fs, DirOfPath(entry[1].path))

\* C10: when a parseable record file exists in the directory that name
\* sanitizes to, and the index file is missing, has no entry for name, or
\* has an entry whose path leads to no file, get_character(name) returns
\* that record.
C10_RecordWins ==
    (last.op = "get" /\ DirectRecordExists(FS, last.name)
       /\ ( \/ index_file.kind = "nofile"
            \/ get_entry(_load_index(FS), last.name) = None
            \/ EntryIsStale(FS, last.name) ))
    => /\ last.err = "ok"
       /\ last.ret =
            <<model_validate_json(files[sanitize_for_filesystem(last.name)]).value>>

\* C10, the case reached: get_character has returned the record found by
\* the direct lookup although the index entry for the name is stale.
C10_Witness ==
    /\ last.op = "get"
    /\ last.err = "ok"
    /\ DirectRecordExists(FS, last.name)
    /\ EntryIsStale(FS, last.name)

\* The index entry for name leads to a description.json that parses.
IndexRecordExists(fs, name) ==
    LET entry == get_entry(_load_index(fs), name)
    IN  /\ entry # None
        /\ FileExists(fs, DirOfPath(entry[1].path))
        /\ model_validate_json(fs.files[DirOfPath(entry[1].path)]).err = "ok"

\* C11: get_character(name) fails with CharacterNotFoundError whenever
\* neither the index path nor the sanitized direct path leads to a file
\* that exists and parses, a file that exists but does not parse included.
C11_NotFoundUnlessParseable ==
    (last.op = "get"
       /\ ~IndexRecordExists(FS, last.name)
       /\ ~DirectRecordExists(FS, last.name))
    => last.err = "CharacterNotFoundError"

\* C11, the case reached: get_character has failed with
\* CharacterNotFoundError on a name that no path resolves.
C11_Witness ==
    /\ last.op = "get"
    /\ last.err = "CharacterNotFoundError"
    /\ ~IndexRecordExists(FS, last.name)
    /\ ~DirectRecordExists(FS, last.name)

-----------------------------------------------------------------------------
(* list_characters, and the store over damaged projects *)

\* CharacterRole: the values of the enumeration
CharacterRoles ==
    { "protagonist", "love_interest", "antagonist", "supporting", "background" }

\* str.lower() on a role filter of the model
LowerFilter(f) ==
    CASE f = "SUPPORTING" -> "supporting"
      [] OTHER -> f

\* The role_filter arguments: none, exact, other case, not a role.
RoleFilters ==
    { None, Some("protagonist"), Some("SUPPORTING"), Some("villain") }

\* get_completion_percentage that does not look at the relationships
CompletionWithoutRelationships(c) ==
    LET Filled(b) == IF b THEN 1 ELSE 0
        sum == Filled(TRUE) + Filled(c.appearance # None)
               + Filled(c.personality # None) + Filled(c.backstory # None)
    IN  (sum * 100) \div 5

\* Character.get_completion_percentage: int(sum(sections) / len(sections) * 100)
get_completion_percentage(c) ==
    LET Filled(b) == IF b THEN 1 ELSE 0
        sum == Filled(TRUE) + Filled(c.appearance # None)
               + Filled(c.personality # None) + Filled(c.backstory # None)
               + Filled(Len(c.relationships) > 0)
    IN  (sum * 100) \div 5

\* list_characters: does the entry pass role_filter (an invalid filter
\* raises ValueError in CharacterRole(...) and filters nothing)
PassesFilter(entry, role_filter) ==
    \/ role_filter = None
    \/ LowerFilter(role_filter[1]) \notin CharacterRoles
    \/ entry.role = LowerFilter(role_filter[1])

Summary(entry, completion) ==
    [name |-> entry.name, role |-> entry.role, age |-> entry.age,
     completion |-> completion]

\* list_characters, the loop over index.characters: only
\* CharacterNotFoundError is caught, any other failure of get_character
\* ends the call
RECURSIVE ListEntries(_, _, _, _)
ListEntries(fs, characters, role_filter, result) ==
    IF characters = <<>> THEN [err |-> "ok", ret |-> result]
    ELSE
      LET entry == Head(characters)
          got == get_character(fs, entry.name)
      IN  IF ~PassesFilter(entry, role_filter)
          THEN ListEntries(fs, Tail(characters), role_filter, result)
          ELSE IF got.err \notin {"ok", "CharacterNotFoundError"}
          THEN [err |-> got.err, ret |-> <<>>]
          ELSE ListEntries(fs, Tail(characters), role_filter,
                   Append(result,
                          Summary(entry,
                                  IF got.err = "ok"
                                  THEN get_completion_percentage(got.value)
                                  ELSE 0)))

\* CharacterService.list_characters
list_characters(fs, role_filter) ==
    ListEntries(fs, _load_index(fs), role_filter, <<>>)

\* Most entries of an index file drawn for SpecRepair.
MaxRepairEntries == 1

\* A third directory, so that two records and a damaged one can coexist.
RepairNames == Names \cup { <<"c", "y">> }

RepairDirs == { sanitize_for_filesystem(n) : n \in RepairNames }

\* What the store can have written into directory d.
RepairRecords(d) ==
    { Character(n, p, <<>>, None) :
        n \in { m \in RepairNames : sanitize_for_filesystem(m) = d },
        p \in Profiles }

\* Every directory is absent, lacks its record file, holds an unparseable
\* one, or holds a record the store wrote there.
RepairFiles ==
    { f \in [ RepairDirs -> { NoDir, EmptyDir, Garbage }
                \cup { model_dump_json(c) :
                         c \in UNION { RepairRecords(d) : d \in RepairDirs } } ] :
        \A d \in RepairDirs :
            f[d].kind = "json" => f[d].doc \in RepairRecords(d) }

\* Index entries of any origin: right, stale in role and age, or pointing
\* at another character's directory.
RepairEntries ==
    { CharacterIndexEntry(Character(n, p, <<>>, None), d) :
        n \in { <<"A", "l">>, <<"B", " ", "o">> },
        p \in { q \in Profiles : q.appearance = None },
        d \in Dirs }

RepairIndexes ==
    { NoFile }
    \cup { [kind |-> "json", characters |-> q] :
             q \in { e \in SeqsUpTo(RepairEntries, MaxRepairEntries) :
                       \A i, j \in 1..Len(e) :
                           Lower(e[i].name) = Lower(e[j].name) => i = j } }

InitRepair ==
    /\ files \in RepairFiles
    /\ index_file \in RepairIndexes
    /\ last = Call("none", <<>>, FALSE, "ok", <<>>)
    /\ deleted = {}
    /\ procs = <<>>
    /\ llm = <<>>
    \* the character store works inside one project; the parent directory
    \* is the project service's concern
    /\ projects = <<>>

\* A list_characters call; ret is the listing returned
ListCharacters(role_filter) ==
    \E r \in { list_characters(FS, role_filter) } :
        /\ last' = Call("list", role_filter, FALSE, r.err, r.ret)
        /\ UNCHANGED <<files, index_file, deleted, projects, procs, llm>>

NextRepair ==
    \/ RebuildIndex /\ UNCHANGED deleted
    \/ \E role_filter \in RoleFilters : ListCharacters(role_filter)

SpecRepair == InitRepair /\ [][NextRepair]_vars

-----------------------------------------------------------------------------
(* Claims about rebuild_index and list_characters *)

\* The directories whose description.json exists and parses.
ValidDirs(fs) ==
    { d \in DOMAIN fs.files :
        FileExists(fs, d) /\ model_validate_json(fs.files[d]).err = "ok" }

\* The directories whose description.json exists and does not parse.
UnparseableDirs(fs) ==
    { d \in DOMAIN fs.files :
        FileExists(fs, d) /\ model_validate_json(fs.files[d]).err # "ok" }

\* The positions of the index entries that point at directory d.
EntriesFor(fs, d) ==
    { i \in 1..Len(_load_index(fs)) : _load_index(fs)[i].path = PathOf(d) }

EntryFromRecord(fs, e, d) ==
    /\ e.name = fs.files[d].doc.basics.name
    /\ e.role = fs.files[d].doc.basics.role
    /\ e.age = fs.files[d].doc.basics.age
    /\ e.path = PathOf(d)

\* The entries of the index correspond one-to-one to the parseable records.
IndexMirrorsRecords(fs) ==
    /\ \A d \in ValidDirs(fs) :
          /\ Cardinality(EntriesFor(fs, d)) = 1
          /\ \A i \in EntriesFor(fs, d) :
                EntryFromRecord(fs, _load_index(fs)[i], d)
    /\ \A i \in 1..Len(_load_index(fs)) :
          DirOfPath(_load_index(fs)[i].path) \in ValidDirs(fs)

\* The index has an entry without a parseable record, or lacks or misstates
\* the entry of one.
IndexDiverges(fs) == ~IndexMirrorsRecords(fs)

RECURSIVE FailOpenListing(_, _, _)
FailOpenListing(fs, characters, role_filter) ==
    IF characters = <<>> THEN <<>>
    ELSE
      LET entry == Head(characters)
          got == get_character(fs, entry.name)
          rest == FailOpenListing(fs, Tail(characters), role_filter)
      IN  IF PassesFilter(entry, role_filter)
          THEN << Summary(entry, IF got.err = "ok"
                                 THEN get_completion_percentage(got.value)
                                 ELSE 0) >> \o rest
          ELSE rest

\* C20: list_characters returns one summary per index entry that passes the
\* role filter, and an entry whose record is missing or unparseable is
\* listed with completion 0 instead of failing the whole listing.
C20_ListFailsOpen ==
    last.op = "list"
    => /\ last.err = "ok"
       /\ last.ret = FailOpenListing(FS, _load_index(FS), last.name)

\* C20, the case reached: a listing has returned an entry with completion 0
\* because its record is missing.
C20_Witness ==
    /\ last.op = "list"
    /\ last.err = "ok"
    /\ \E i \in 1..Len(last.ret) :
          /\ last.ret[i].completion = 0
          /\ get_character(FS, last.ret[i].name).err = "CharacterNotFoundError"

-----------------------------------------------------------------------------
(* The project service *)

\* Field(max_length=...) of Project.name, Project.genre, Project.synopsis
NameMaxLength == 100
GenreMaxLength == 50
SynopsisMaxLength == 2000

\* n copies of one character
Repeat(ch, n) == [i \in 1..n |-> ch]

\* The characters str.isalnum() accepts, of the model's alphabet.
AlnumChars == { "A", "B", "a", "b", "c", "l", "o", "y" }

RECURSIVE StripLeft(_)
\* str.lstrip()
StripLeft(s) == IF s # <<>> /\ Head(s) = " " THEN StripLeft(Tail(s)) ELSE s

RECURSIVE StripRight(_)
\* str.rstrip()
StripRight(s) ==
    IF s # <<>> /\ s[Len(s)] = " " THEN StripRight(SubSeq(s, 1, Len(s) - 1)) ELSE s

\* str.strip()
Strip(s) == StripRight(StripLeft(s))

\* str.isalnum(): non-empty and alphanumeric throughout
isalnum(s) == s # <<>> /\ \A i \in 1..Len(s) : s[i] \in AlnumChars

\* Project.validate_project_name, after the length constraints of the field
validate_project_name(v) ==
    LET stripped == Strip(v)
        test_str == SelectSeq(stripped, LAMBDA ch : ch \notin {" ", "-", "_"})
    IN  IF Len(v) < 1 \/ Len(v) > NameMaxLength THEN [err |-> "ValidationError"]
        ELSE IF stripped = <<>> THEN [err |-> "ValidationError"]
        ELSE IF ~isalnum(test_str) THEN [err |-> "ValidationError"]
        ELSE [err |-> "ok", value |-> stripped]

\* validate_genre that keeps the case
ValidateGenreKeepCase(v) ==
    IF Len(v) < 1 \/ Len(v) > GenreMaxLength THEN [err |-> "ValidationError"]
    ELSE IF Strip(v) = <<>> THEN [err |-> "ValidationError"]
    ELSE [err |-> "ok", value |-> Strip(v)]

\* Project.validate_genre, after the length constraints of the field
validate_genre(v) ==
    IF Len(v) < 1 \/ Len(v) > GenreMaxLength THEN [err |-> "ValidationError"]
    ELSE IF Strip(v) = <<>> THEN [err |-> "ValidationError"]
    ELSE [err |-> "ok", value |-> Lower(Strip(v))]

\* Project.validate_synopsis, after the length constraints of the field
validate_synopsis(v) ==
    IF Len(v) < 1 \/ Len(v) > SynopsisMaxLength THEN [err |-> "ValidationError"]
    ELSE IF Strip(v) = <<>> THEN [err |-> "ValidationError"]
    ELSE [err |-> "ok", value |-> Strip(v)]

\* Project(name=..., genre=..., synopsis=...): the record, or the
\* validation error pydantic raises when any field fails
Project(name, genre, synopsis) ==
    LET n == validate_project_name(name)
        g == validate_genre(genre)
        y == validate_synopsis(synopsis)
    IN  IF n.err = "ok" /\ g.err = "ok" /\ y.err = "ok"
        THEN [err |-> "ok",
              value |-> [name |-> n.value, genre |-> g.value,
                         synopsis |-> y.value]]
        ELSE [err |-> "ValidationError"]

\* Project.model_validate_json on the content of story.json
project_validate_json(content) ==
    IF content.kind = "json"
    THEN Project(content.doc.name, content.doc.genre, content.doc.synopsis)
    ELSE [err |-> "ValidationError"]

\* What a path can hold where a file is expected: a directory.
IsDir == [kind |-> "dir"]

\* Valid JSON that is not an object: index_data.get raises AttributeError.
NotObject == [kind |-> "notobject"]

\* A project path that does not exist.
AbsentTree ==
    [root |-> "absent", story_json |-> NoFile, story_data |-> "absent",
     characters |-> "absent", index |-> NoFile, chars |-> {}]

\* create_project that stops before the index file
SkeletonWithoutIndex(project) ==
    [root |-> "dir",
     story_json |-> [kind |-> "json", doc |-> project],
     story_data |-> "dir",
     characters |-> "dir",
     index |-> NoFile,
     chars |-> {}]

\* create_project, lines 69-88: the directories, story.json and the empty
\* index
Skeleton(project) ==
    [root |-> "dir",
     story_json |-> [kind |-> "json", doc |-> project],
     story_data |-> "dir",
     characters |-> "dir",
     index |-> [kind |-> "json", characters |-> <<>>],
     chars |-> {}]

\* Path.exists() of parent / dir_name; an empty dir_name is the parent
PathExists(ps, d) == d = <<>> \/ (d \in DOMAIN ps /\ ps[d].root # "absent")

\* Path.is_dir() of parent / dir_name
PathIsDir(ps, d) == d = <<>> \/ (d \in DOMAIN ps /\ ps[d].root = "dir")

\* create_project that makes the directories before it validates
CreateProjectMkdirFirst(ps, name, genre, synopsis) ==
    LET dir_name == sanitize_for_filesystem(name)
        project == Project(name, genre, synopsis)
    IN  IF PathExists(ps, dir_name)
        THEN [err |-> "ProjectExistsError", ret |-> <<>>, ps |-> ps]
        ELSE IF project.err # "ok"
        THEN [err |-> project.err, ret |-> <<>>,
              ps |-> [ps EXCEPT ![dir_name] =
                         [AbsentTree EXCEPT !.root = "dir"]]]
        ELSE [err |-> "ok", ret |-> <<dir_name>>,
              ps |-> [ps EXCEPT ![dir_name] = Skeleton(project.value)]]

\* create_project that validates before it looks at the target path
CreateProjectOverwrites(ps, name, genre, synopsis) ==
    LET dir_name == sanitize_for_filesystem(name)
        project == Project(name, genre, synopsis)
    IN  IF project.err # "ok"
        THEN [err |-> project.err, ret |-> <<>>, ps |-> ps]
        ELSE [err |-> "ok", ret |-> <<dir_name>>,
              ps |-> [ps EXCEPT ![dir_name] = Skeleton(project.value)]]

\* ProjectService.create_project
create_project(ps, name, genre, synopsis) ==
    LET dir_name == sanitize_for_filesystem(name)
        project == Project(name, genre, synopsis)
    IN  IF PathExists(ps, dir_name)
        THEN [err |-> "ProjectExistsError", ret |-> <<>>, ps |-> ps]
        ELSE IF project.err # "ok"
        THEN [err |-> project.err, ret |-> <<>>, ps |-> ps]
        ELSE [err |-> "ok", ret |-> <<dir_name>>,
              ps |-> [ps EXCEPT ![dir_name] = Skeleton(project.value)]]

\* The error messages of validate_project, cut where story.json is named
\* so that the substring test of open_project can be made.
ErrNoDirectory == << "Project directory does not exist" >>
ErrNotADirectory == << "Path is not a directory" >>
ErrMissingStory == << "Missing ", "story.json" >>
ErrStoryNotAFile == << "story.json", " is not a file" >>
ErrInvalidStory == << "Invalid project data in ", "story.json" >>
ErrMissingData == << "Missing story_data directory" >>
ErrDataNotADir == << "story_data is not a directory" >>
ErrMissingChars == << "Missing story_data/characters directory" >>
ErrCharsNotADir == << "story_data/characters is not a directory" >>

\* validate_project, lines 112-126: the check of story.json
StoryErrors(t) ==
    IF t.story_json.kind = "nofile" THEN << ErrMissingStory >>
    ELSE IF t.story_json.kind = "dir" THEN << ErrStoryNotAFile >>
    ELSE IF project_validate_json(t.story_json).err # "ok"
    THEN << ErrInvalidStory >>
    ELSE << >>

\* validate_project, lines 128-140: the checks of story_data and, inside
\* it, of characters
DataErrors(t) ==
    IF t.story_data = "absent" THEN << ErrMissingData >>
    ELSE IF t.story_data # "dir" THEN << ErrDataNotADir >>
    ELSE IF t.characters = "absent" THEN << ErrMissingChars >>
    ELSE IF t.characters # "dir" THEN << ErrCharsNotADir >>
    ELSE << >>

\* validate_project that returns at the first error
ValidateStopsAtFirst(ps, path) ==
    LET errors ==
          IF ~PathExists(ps, path) THEN << ErrNoDirectory >>
          ELSE IF ~PathIsDir(ps, path) THEN << ErrNotADirectory >>
          ELSE IF StoryErrors(ps[path]) # << >> THEN StoryErrors(ps[path])
          ELSE DataErrors(ps[path])
    IN  [is_valid |-> Len(errors) = 0, errors |-> errors]

\* ProjectService.validate_project
validate_project(ps, path) ==
    LET errors ==
          IF ~PathExists(ps, path) THEN << ErrNoDirectory >>
          ELSE IF ~PathIsDir(ps, path) THEN << ErrNotADirectory >>
          ELSE StoryErrors(ps[path]) \o DataErrors(ps[path])
    IN  [is_valid |-> Len(errors) = 0, errors |-> errors]

\* STORY_JSON in e, for an error message e
NamesStoryJson(e) == \E i \in 1..Len(e) : e[i] = "story.json"

\* ProjectService.open_project.  Line 162 asks whether the string
\* "story.json" is an element of the list of the messages that contain it.
open_project(ps, path) ==
    LET v == validate_project(ps, path)
        about_story == SelectSeq(v.errors, NamesStoryJson)
    IN  IF ~v.is_valid
        THEN IF ~PathExists(ps, path)
                  \/ ~(\E i \in 1..Len(about_story) :
                          about_story[i] = << "story.json" >>)
             THEN [err |-> "ProjectNotFoundError", ret |-> <<>>]
             ELSE [err |-> "ProjectValidationError", ret |-> v.errors]
        ELSE [err |-> "ok",
              ret |-> << project_validate_json(ps[path].story_json).value >>]

\* ProjectService.get_project_summary: the index is counted when it
\* exists and parses to an object, the subdirectories of characters are
\* counted when json.loads fails, and the count stays 0 without an index
get_project_summary(ps, path) ==
    LET opened == open_project(ps, path)
        t == ps[path]
        character_count ==
            IF t.index.kind = "nofile" THEN 0
            ELSE IF t.index.kind = "json" THEN Len(t.index.characters)
            ELSE IF t.characters # "absent" THEN Cardinality(t.chars)
            ELSE 0
    IN  IF opened.err # "ok" THEN opened
        ELSE IF t.index.kind = "notobject"
        THEN [err |-> "AttributeError", ret |-> <<>>]
        ELSE [err |-> "ok",
              ret |-> << [name |-> opened.ret[1].name,
                          genre |-> opened.ret[1].genre,
                          synopsis |-> opened.ret[1].synopsis,
                          character_count |-> character_count] >>]

\* The names handed to create_project: plain, padded with blanks, empty,
\* blank, with a forbidden character, separators only, of the greatest
\* length allowed, and one character longer.
ProjectNames ==
    { <<"A", "l">>, <<" ", "A", "l", " ">>, <<>>, <<" ", " ">>,
      <<"A", "!">>, <<"-">>,
      Repeat("a", NameMaxLength), Repeat("a", NameMaxLength + 1) }

\* The genres: mixed case and padded, empty, blank, too long.
Genres ==
    { <<" ", "A", "b", " ">>, <<>>, <<" ">>, Repeat("b", GenreMaxLength + 1) }

\* The synopses: padded, empty, too long.
Synopses == { <<" ", "o", " ">>, <<>>, Repeat("o", SynopsisMaxLength + 1) }

\* The paths under the parent directory that a call can name.
ProjectDirs == { sanitize_for_filesystem(n) : n \in ProjectNames } \ { <<>> }

\* What story.json can be: missing, a directory, not JSON, JSON that is no
\* valid project, a project record.
StoryFiles ==
    { NoFile, IsDir, Garbage,
      [kind |-> "json",
       doc |-> [name |-> <<"A", "!">>, genre |-> <<"b">>, synopsis |-> <<"o">>]],
      [kind |-> "json",
       doc |-> [name |-> <<"A", "l">>, genre |-> <<"b">>, synopsis |-> <<"o">>]] }

\* What characters_index.json can be.
ProjectIndexes ==
    { NoFile, Garbage, NotObject,
      [kind |-> "json", characters |-> <<>>],
      [kind |-> "json",
       characters |-> << [name |-> <<"A", "l">>, role |-> "supporting",
                          age |-> None, path |-> PathOf(<<"a", "l">>)] >>] }

\* What a project path can hold: nothing, a file, or a directory with any
\* part of the structure present, damaged or missing.
ProjectTrees ==
    { AbsentTree, [AbsentTree EXCEPT !.root = "file"] }
    \cup { t \in [ root : {"dir"}, story_json : StoryFiles,
                   story_data : {"absent", "file", "dir"},
                   characters : {"absent", "file", "dir"},
                   index : ProjectIndexes, chars : SUBSET Dirs ] :
             /\ t.story_data # "dir" => t.characters = "absent" /\ t.index = NoFile
             /\ t.characters # "dir" => t.chars = {} }

\* A project that has been worked in: one character directory and its
\* index entry.
PopulatedTree ==
    [root |-> "dir",
     story_json |-> [kind |-> "json",
                     doc |-> [name |-> <<"A", "l">>, genre |-> <<"b">>,
                              synopsis |-> <<"o">>]],
     story_data |-> "dir",
     characters |-> "dir",
     index |-> [kind |-> "json",
                characters |-> << [name |-> <<"A", "l">>, role |-> "supporting",
                                   age |-> None, path |-> PathOf(<<"a", "l">>)] >>],
     chars |-> { <<"a", "l">> }]

\* What the path of the first project holds before any call: nothing, a
\* file, a project that has been worked in, a directory that is no project.
StartTrees ==
    { AbsentTree, [AbsentTree EXCEPT !.root = "file"], PopulatedTree,
      [AbsentTree EXCEPT !.root = "dir"] }

\* The parent directory with one path in the state t.
Parent(t) == [d \in ProjectDirs |-> IF d = <<"a", "l">> THEN t ELSE AbsentTree]

InitProject ==
    /\ projects \in { Parent(t) : t \in StartTrees }
    /\ files = [d \in Dirs |-> NoDir]
    /\ index_file = NoFile
    /\ last = Call("none", <<>>, FALSE, "ok", <<>>)
    /\ deleted = {}
    /\ procs = <<>>
    /\ llm = <<>>

CreateProject(name, genre, synopsis) ==
    \E r \in { create_project(projects, name, genre, synopsis) } :
        /\ projects' = r.ps
        /\ last' = Call("create_project", <<name, genre, synopsis>>, FALSE,
                        r.err, r.ret)
        /\ UNCHANGED <<files, index_file, deleted, procs, llm>>

ValidateProject(path) ==
    /\ last' = Call("validate_project", path, FALSE, "ok",
                    << validate_project(projects, path) >>)
    /\ UNCHANGED <<files, index_file, deleted, projects, procs, llm>>

OpenProject(path) ==
    \E r \in { open_project(projects, path) } :
        /\ last' = Call("open_project", path, FALSE, r.err, r.ret)
        /\ UNCHANGED <<files, index_file, deleted, projects, procs, llm>>

GetProjectSummary(path) ==
    \E r \in { get_project_summary(projects, path) } :
        /\ last' = Call("get_project_summary", path, FALSE, r.err, r.ret)
        /\ UNCHANGED <<files, index_file, deleted, projects, procs, llm>>

NextProject ==
    \/ \E name \in ProjectNames, genre \in Genres, synopsis \in Synopses :
           CreateProject(name, genre, synopsis)
    \/ \E path \in ProjectDirs : ValidateProject(path)
    \/ \E path \in ProjectDirs : OpenProject(path)
    \/ \E path \in ProjectDirs : GetProjectSummary(path)

SpecProject == InitProject /\ [][NextProject]_vars

\* Projects damaged outside the program: one path holds any tree, and the
\* calls that read a project are made on it.
InitDamaged ==
    /\ projects \in { Parent(t) : t \in ProjectTrees }
    /\ files = [d \in Dirs |-> NoDir]
    /\ index_file = NoFile
    /\ last = Call("none", <<>>, FALSE, "ok", <<>>)
    /\ deleted = {}
    /\ procs = <<>>
    /\ llm = <<>>

\* The paths the reading calls are made on: the drawn one and an absent one.
DamagedPaths == { <<"a", "l">>, <<"_", "a", "l", "_">> }

NextDamaged ==
    \/ \E path \in DamagedPaths : ValidateProject(path)
    \/ \E path \in DamagedPaths : OpenProject(path)
    \/ \E path \in DamagedPaths : GetProjectSummary(path)

SpecDamaged == InitDamaged /\ [][NextDamaged]_vars

-----------------------------------------------------------------------------
(* Claims about the project service *)

\* The tree at the path of the last call.
LastTree == projects[last.name]

\* The project at tree t is structurally valid.
StructurallyValid(t) ==
    /\ t.root = "dir"
    /\ t.story_json.kind = "json"
    /\ project_validate_json(t.story_json).err = "ok"
    /\ t.story_data = "dir"
    /\ t.characters = "dir"

\* C14: open_project fails with ProjectNotFoundError when the project root
\* or story.json is absent, and with ProjectValidationError carrying the
\* full list of validation errors when root and story.json are present but
\* the project is structurally invalid.
C14_OpenProjectErrors ==
    last.op = "open_project"
    => /\ (LastTree.root = "absent" \/ LastTree.story_json.kind = "nofile")
             => last.err = "ProjectNotFoundError"
       /\ (LastTree.root = "dir" /\ LastTree.story_json.kind # "nofile"
             /\ ~StructurallyValid(LastTree))
             => /\ last.err = "ProjectValidationError"
                /\ last.ret = validate_project(projects, last.name).errors

\* C14, the case reached: open_project has failed with
\* ProjectNotFoundError on a project directory without story.json.
C14_Witness ==
    /\ last.op = "open_project"
    /\ last.err = "ProjectNotFoundError"
    /\ LastTree.root = "dir"
    /\ LastTree.story_json.kind = "nofile"

\* A text within its length bounds that is not blank.
WellFormedText(v, max) == Len(v) >= 1 /\ Len(v) <= max /\ Strip(v) # <<>>

\* A valid triple: every field within its length bounds and not blank, the
\* name made of letters, digits, spaces, hyphens and underscores with at
\* least one letter or digit.
WellFormedTriple(name, genre, synopsis) ==
    /\ WellFormedText(name, NameMaxLength)
    /\ WellFormedText(genre, GenreMaxLength)
    /\ WellFormedText(synopsis, SynopsisMaxLength)
    /\ \A i \in 1..Len(name) : name[i] \in AlnumChars \cup {" ", "-", "_"}
    /\ \E i \in 1..Len(name) : name[i] \in AlnumChars

\* C15: for every valid name/genre/synopsis triple, create_project
\* succeeds (the target path being free) and open_project on the returned
\* path returns the trimmed name and synopsis and the trimmed, lowercased
\* genre, and validate_project reports the project valid with no errors.
C15_CreateThenOpen ==
    [][ last'.op = "create_project"
        => LET name == last'.name[1]
               genre == last'.name[2]
               synopsis == last'.name[3]
           IN  /\ (WellFormedTriple(name, genre, synopsis)
                     /\ ~PathExists(projects, sanitize_for_filesystem(name)))
                     => last'.err = "ok"
               /\ last'.err = "ok"
                     => /\ open_project(projects', last'.ret[1])
                           = [err |-> "ok",
                              ret |-> << [name |-> Strip(name),
                                          genre |-> Lower(Strip(genre)),
                                          synopsis |-> Strip(synopsis)] >>]
                        /\ validate_project(projects', last'.ret[1])
                           = [is_valid |-> TRUE, errors |-> <<>>] ]_vars

\* C15, the case reached: create_project has succeeded on a padded name, a
\* padded mixed-case genre and a padded synopsis.
C15_Witness ==
    /\ last.op = "create_project"
    /\ last.err = "ok"
    /\ Strip(last.name[1]) # last.name[1]
    /\ Lower(Strip(last.name[2])) # last.name[2]
    /\ Strip(last.name[3]) # last.name[3]

\* C16: create_project on a name whose directory exists (a second call with
\* the same name and parent) fails with ProjectExistsError and leaves the
\* directory, story.json, the index and the character data untouched.
C16_SecondCreateRefused ==
    [][ (last'.op = "create_project"
           /\ PathExists(projects, sanitize_for_filesystem(last'.name[1])))
        => /\ last'.err = "ProjectExistsError"
           /\ projects' = projects ]_vars

\* C16, the case reached: create_project has been refused on a project
\* that holds character data.
C16_Witness ==
    /\ last.op = "create_project"
    /\ last.err = "ProjectExistsError"
    /\ sanitize_for_filesystem(last.name[1]) \in ProjectDirs
    /\ StructurallyValid(projects[sanitize_for_filesystem(last.name[1])])
    /\ projects[sanitize_for_filesystem(last.name[1])].chars # {}

\* C17: create_project with an invalid name, genre or synopsis, for a
\* target directory that does not exist, fails with a validation error and
\* creates no directory and no file.
C17_InvalidNeverPersisted ==
    [][ (last'.op = "create_project"
           /\ ~WellFormedTriple(last'.name[1], last'.name[2], last'.name[3])
           /\ ~PathExists(projects, sanitize_for_filesystem(last'.name[1])))
        => /\ last'.err = "ValidationError"
           /\ projects' = projects ]_vars

\* C17, the case reached: create_project has failed with a validation
\* error and its target directory does not exist.
C17_Witness ==
    /\ last.op = "create_project"
    /\ last.err = "ValidationError"
    /\ ~PathExists(projects, sanitize_for_filesystem(last.name[1]))

\* The checks of validate_project that fail on tree t; the characters
\* directory is looked for inside an existing story_data directory.
FailingChecks(t) ==
    { c \in {"story.json", "story_data", "characters"} :
        \/ c = "story.json"
             /\ (t.story_json.kind # "json"
                   \/ project_validate_json(t.story_json).err # "ok")
        \/ c = "story_data" /\ t.story_data # "dir"
        \/ c = "characters" /\ t.story_data = "dir" /\ t.characters # "dir" }

\* C18: validate_project never raises and accumulates all violations: for
\* an existing project directory it reports one error for each failing
\* check (story.json, story_data, characters), and is_valid is true exactly
\* when the error list is empty.
C18_ValidateAccumulates ==
    last.op = "validate_project"
    => /\ last.err = "ok"
       /\ last.ret[1].is_valid <=> last.ret[1].errors = <<>>
       /\ LastTree.root = "dir"
             => Len(last.ret[1].errors) = Cardinality(FailingChecks(LastTree))

\* C18, the case reached: validate_project has reported two errors at once.
C18_Witness ==
    /\ last.op = "validate_project"
    /\ LastTree.root = "dir"
    /\ Len(last.ret[1].errors) = 2
    /\ ~last.ret[1].is_valid

\* C19: get_project_summary reports the number of index entries, and when
\* the index is unreadable (missing, not valid JSON, not of the expected
\* shape) the number of character subdirectories, instead of failing or
\* reporting zero.
C19_SummaryCount ==
    (last.op = "get_project_summary" /\ StructurallyValid(LastTree))
    => /\ last.err = "ok"
       /\ last.ret[1].character_count
            = IF LastTree.index.kind = "json"
              THEN Len(LastTree.index.characters)
              ELSE Cardinality(LastTree.chars)

\* C19, the case reached: the index is not JSON and the summary counts the
\* two character subdirectories.
C19_Witness ==
    /\ last.op = "get_project_summary"
    /\ last.err = "ok"
    /\ LastTree.index.kind = "garbage"
    /\ last.ret[1].character_count = 2

-----------------------------------------------------------------------------
(* The record's own methods: get_completion_percentage and                 *)
(* generate_lora_trigger over records of every shape                       *)

\* HairDescription: absent, no field set, colour, style, both.
Hairs ==
    { None,
      Some([color |-> None, style |-> None]),
      Some([color |-> <<"black">>, style |-> None]),
      Some([color |-> None, style |-> <<"short">>]),
      Some([color |-> <<"black">>, style |-> <<"short">>]) }

\* EyeDescription: absent, no colour, colour.
Eyes == { None, Some([color |-> None]), Some([color |-> <<"brown">>]) }

\* distinctive_features: none, one, three.
FeatureLists ==
    { <<>>, << <<"B", " ", "a">> >>,
      << <<"B", " ", "a">>, <<"l", "o">>, <<"o">> >> }

Appearances ==
    [ hair : Hairs, eyes : Eyes, distinctive_features : FeatureLists ]

\* Records of every shape: each section absent or present.
RecordShapes ==
    { [ basics |-> [name |-> n, age |-> None, role |-> "protagonist"],
        appearance |-> a, personality |-> p, backstory |-> b,
        relationships |-> r, lora_trigger |-> None ] :
        n \in { <<"A", "l">>, <<"A", "'", "l">>, <<"B", " ", "o">> },
        a \in { None } \cup { Some(x) : x \in Appearances },
        p \in { None, Some(Personality1) },
        b \in { None, Some(Backstory1) },
        r \in { <<>>, << Relationship(<<"a", "l">>) >> } }

\* The record c with one absent section filled in, per section.
WithSection(c) ==
    (IF c.appearance = None
     THEN { [c EXCEPT !.appearance = Some(x)] : x \in Appearances } ELSE {})
    \cup (IF c.personality = None
          THEN { [c EXCEPT !.personality = Some(Personality1)] } ELSE {})
    \cup (IF c.backstory = None
          THEN { [c EXCEPT !.backstory = Some(Backstory1)] } ELSE {})
    \cup (IF c.relationships = <<>>
          THEN { [c EXCEPT !.relationships = << Relationship(<<"a", "l">>) >>] }
          ELSE {})

\* last.name is the record at hand, last.ret what the method returned.
InitRecord ==
    /\ last \in { Call("record", c, FALSE, "ok", <<>>) : c \in RecordShapes }
    /\ files = [d \in Dirs |-> NoDir]
    /\ index_file = NoFile
    /\ deleted = {}
    /\ procs = <<>>
    /\ llm = <<>>
    /\ projects = <<>>

\* The wizard fills in a section of the record.
AddSection ==
    \E c \in WithSection(last.name) :
        /\ last' = Call("record", c, FALSE, "ok", <<>>)
        /\ UNCHANGED <<files, index_file, deleted, projects, procs, llm>>

GetCompletionPercentage ==
    /\ last' = Call("completion", last.name, FALSE, "ok",
                    << get_completion_percentage(last.name) >>)
    /\ UNCHANGED <<files, index_file, deleted, projects, procs, llm>>

GenerateLoraTrigger ==
    /\ last' = Call("lora", last.name, FALSE, "ok",
                    << generate_lora_trigger(last.name) >>)
    /\ UNCHANGED <<files, index_file, deleted, projects, procs, llm>>

NextRecord ==
    \/ AddSection
    \/ GetCompletionPercentage
    \/ GenerateLoraTrigger

SpecRecord == InitRecord /\ [][NextRecord]_vars

-----------------------------------------------------------------------------
(* Claims about the record's methods *)

\* The sections of record c that are present.
PresentSections(c) ==
    { "basics" }
    \cup (IF c.appearance # None THEN { "appearance" } ELSE {})
    \cup (IF c.personality # None THEN { "personality" } ELSE {})
    \cup (IF c.backstory # None THEN { "backstory" } ELSE {})
    \cup (IF c.relationships # <<>> THEN { "relationships" } ELSE {})

\* C21: get_completion_percentage is one of 0, 20, 40, 60, 80, 100, equals
\* 20 times the number of present sections (basics, appearance,
\* personality, backstory, a non-empty relationships list), and does not
\* decrease when a section is added to the record.
C21_CompletionCountsSections ==
    /\ [](last.op = "completion"
            => /\ last.ret[1] \in {0, 20, 40, 60, 80, 100}
               /\ last.ret[1] = 20 * Cardinality(PresentSections(last.name)))
    /\ [][ (last'.op = "record"
              /\ PresentSections(last.name) \subseteq PresentSections(last'.name))
           => get_completion_percentage(last'.name)
                >= get_completion_percentage(last.name) ]_vars

\* C21, the case reached: the percentage of a record with three sections
\* has been computed.
C21_Witness ==
    /\ last.op = "completion"
    /\ Cardinality(PresentSections(last.name)) = 3
    /\ last.ret[1] = 60

\* The trigger the claim describes for record c: the sanitized name, the
\* hair part, the eye part, the first two distinctive features.
DescribedTrigger(c) ==
    LET app == c.appearance[1]
        hair_words ==
            IF app.hair = None THEN <<>>
            ELSE SelectSeq(<< app.hair[1].color, app.hair[1].style >>,
                           LAMBDA w : w # None)
        hair_part ==
            IF hair_words = <<>> THEN <<>>
            ELSE << Join(hair_words, <<"_">>) \o <<"_hair">> >>
        eye_part ==
            IF app.eyes = None \/ app.eyes[1].color = None THEN <<>>
            ELSE << app.eyes[1].color \o <<"_eyes">> >>
        feature_parts ==
            [ i \in 1..(IF Len(app.distinctive_features) < 2
                        THEN Len(app.distinctive_features) ELSE 2) |->
                SpacesToUnderscores(Lower(app.distinctive_features[i])) ]
    IN  IF c.appearance = None
        THEN sanitize_for_filesystem(c.basics.name)
        ELSE Join(<< sanitize_for_filesystem(c.basics.name) >>
                    \o hair_part \o eye_part \o feature_parts, <<", ">>)

\* C23: the LoRA trigger is the sanitized name (lowercased, spaces to
\* underscores, apostrophes removed), then the hair part, the eye part and
\* at most the first two distinctive features, joined by a comma and a
\* space.
C23_TriggerFromSanitizedName ==
    last.op = "lora" => last.ret[1] = DescribedTrigger(last.name)

\* C23, the case reached: a trigger with a hair part of two words, an eye
\* part and two of three features has been generated as described.
C23_Witness ==
    /\ last.op = "lora"
    /\ last.name.appearance # None
    /\ last.name.appearance[1].hair = Some([color |-> <<"black">>, style |-> <<"short">>])
    /\ last.name.appearance[1].eyes = Some([color |-> <<"brown">>])
    /\ Len(last.name.appearance[1].distinctive_features) = 3
    /\ last.ret[1] = DescribedTrigger(last.name)

-----------------------------------------------------------------------------
(* create_character and update_character with the record's timestamps and  *)
(* a trigger the caller supplied                                           *)

\* Latest time of a call (datetime.now()); a record starts at time 0.
MaxTime == 2

Times == 1..MaxTime

\* create_character, lines 100-103 and what follows: both timestamps are
\* set to now before the record is written
create_character_at(fs, character, now) ==
    create_character(fs, [character EXCEPT !.created_at = now, !.updated_at = now])

\* update_character, line 186 and what follows: updated_at is set to now
\* before the record is written
update_character_at(fs, character, now) ==
    update_character(fs, [character EXCEPT !.updated_at = now])

\* Records with timestamps, with and without an appearance, with no
\* trigger, a trigger of the caller's, or (the appearance filled in after
\* the record was built) the trigger of the bare name.
StampedInputs ==
    { [ basics |-> [name |-> n, age |-> None, role |-> "supporting"],
        appearance |-> a, personality |-> None, backstory |-> None,
        relationships |-> <<>>, lora_trigger |-> t,
        created_at |-> 0, updated_at |-> 0 ] :
        n \in { <<"A", "l">>, <<"B", " ", "o">> },
        a \in { None, Some(Appearance1) },
        t \in { None, <<"m", "y">> } }

InitStamped ==
    /\ files = [d \in Dirs |-> NoDir]
    /\ index_file = [kind |-> "json", characters |-> <<>>]
    /\ last = Call("none", <<>>, FALSE, "ok", <<>>)
    /\ deleted = {}
    /\ procs = <<>>
    /\ llm = <<>>
    /\ projects = <<>>

\* A create_character call at time now; last.name is the record handed
\* over and last.ret the time
CreateCharacterAt(c, now) ==
    \E r \in { create_character_at(FS, c, now) } :
        /\ Commit(r.fs)
        /\ last' = Call("create", c, FALSE, r.err, <<now>>)
        /\ UNCHANGED deleted

\* An update_character call at time now
UpdateCharacterAt(c, now) ==
    \E r \in { update_character_at(FS, c, now) } :
        /\ Commit(r.fs)
        /\ last' = Call("update", c, FALSE, r.err, <<now>>)
        /\ UNCHANGED deleted

NextStamped ==
    \/ \E c \in StampedInputs, now \in Times : CreateCharacterAt(c, now)
    \/ \E c \in StampedInputs, now \in Times : UpdateCharacterAt(c, now)

SpecStamped == InitStamped /\ [][NextStamped]_vars

\* The record written by the successful call that just returned.
WrittenRecord(before, after, call) ==
    after.files[IF call.op = "update"
                THEN UpdateTarget(before, call.name.basics.name)[1]
                ELSE _get_character_dir(call.name.basics.name)].doc

\* C22: update_character recomputes lora_trigger from the current name and
\* appearance when appearance is present, overwriting a supplied value,
\* and leaves it as supplied when appearance is absent; create_character
\* computes it only when the record has none; both set updated_at to the
\* time of the call.
C22_TriggerAndTimestamp ==
    [][ (last'.op \in {"create", "update"} /\ last'.err = "ok")
        => LET c == last'.name
               w == WrittenRecord(FS, FS', last')
           IN  /\ w.updated_at = last'.ret[1]
               /\ last'.op = "update"
                    => w.lora_trigger
                         = IF c.appearance # None
                           THEN generate_lora_trigger(c) ELSE c.lora_trigger
               /\ last'.op = "create"
                    => w.lora_trigger
                         = IF c.lora_trigger = None
                           THEN generate_lora_trigger(c) ELSE c.lora_trigger
      ]_vars

\* C22, the case reached: update_character has overwritten the trigger
\* the caller supplied with the one of the record's appearance.
C22_Witness ==
    /\ last.op = "update"
    /\ last.err = "ok"
    /\ last.name.appearance # None
    /\ last.name.lora_trigger = <<"m", "y">>
    /\ files[_get_character_dir(last.name.basics.name)].doc.lora_trigger
         = generate_lora_trigger(last.name)
    /\ files[_get_character_dir(last.name.basics.name)].doc.updated_at
         = last.ret[1]

-----------------------------------------------------------------------------
(* Two processes in create_character on one project.  Nothing is locked:   *)
(* every file system call of the method is a step of its own.              *)

Procs == {1, 2}

\* The records the two processes create.
ConcurrentInputs ==
    { Character(n, p, <<>>, None) :
        n \in { <<"A", "l">>, <<"B", " ", "o">> }, p \in Profiles }

\* A create_character call before its first step.
Started(character) ==
    [pc |-> "exists", character |-> character, index |-> <<>>, err |-> "running"]

\* char_dir.mkdir(parents=True, exist_ok=True)
MkdirExistOk(fs, d) ==
    [err |-> "ok",
     fs |-> IF DirExists(fs, d) THEN fs ELSE [fs EXCEPT !.files[d] = EmptyDir]]

\* char_dir.mkdir(parents=True): fails when the directory is there
mkdir(fs, d) ==
    IF DirExists(fs, d)
    THEN [err |-> "FileExistsError", fs |-> fs]
    ELSE [err |-> "ok", fs |-> [fs EXCEPT !.files[d] = EmptyDir]]

\* create_character, lines 105-114: the trigger and the write of
\* description.json
write_record(fs, character) ==
    LET c == IF character.lora_trigger = None
             THEN [character EXCEPT !.lora_trigger = generate_lora_trigger(character)]
             ELSE character
    IN  [fs EXCEPT !.files[_get_character_dir(character.basics.name)] =
            model_dump_json(c)]

\* The end of create_character with the index read again under a lock
SaveReloadsIndex(fs, index, character) ==
    _save_index(fs,
        add_entry(_load_index(fs),
                  CharacterIndexEntry(character,
                                      _get_character_dir(character.basics.name))))

\* create_character, lines 118-126: the entry is added to the index this
\* process loaded, and that index is written
save_entry(fs, index, character) ==
    _save_index(fs,
        add_entry(index,
                  CharacterIndexEntry(character,
                                      _get_character_dir(character.basics.name))))

InitConcurrent ==
    /\ files = [d \in Dirs |-> NoDir]
    /\ index_file = [kind |-> "json", characters |-> <<>>]
    /\ last = Call("none", <<>>, FALSE, "ok", <<>>)
    /\ deleted = {}
    /\ projects = <<>>
    /\ procs \in { [p \in Procs |-> Started(c[p])] : c \in [Procs -> ConcurrentInputs] }
    /\ llm = <<>>

\* The directory process p creates.
DirOf(p) == _get_character_dir(procs[p].character.basics.name)

\* Process p moves to pc, or ends with err.
Goto(p, pc) == procs' = [procs EXCEPT ![p].pc = pc]
Finish(p, err) == procs' = [procs EXCEPT ![p].pc = "done", ![p].err = err]

\* if char_dir.exists(): raise CharacterExistsError(name)
CheckExists(p) ==
    /\ procs[p].pc = "exists"
    /\ IF DirExists(FS, DirOf(p)) THEN Finish(p, "CharacterExistsError")
       ELSE Goto(p, "mkdir")
    /\ UNCHANGED <<files, index_file, last, deleted, projects, llm>>

\* char_dir.mkdir(parents=True)
Mkdir(p) ==
    /\ procs[p].pc = "mkdir"
    /\ \E r \in { mkdir(FS, DirOf(p)) } :
          /\ files' = r.fs.files
          /\ IF r.err = "ok" THEN Goto(p, "write") ELSE Finish(p, r.err)
    /\ UNCHANGED <<index_file, last, deleted, projects, llm>>

\* char_file.write_text(character.model_dump_json(indent=2))
WriteRecord(p) ==
    /\ procs[p].pc = "write"
    /\ files' = write_record(FS, procs[p].character).files
    /\ Goto(p, "load")
    /\ UNCHANGED <<index_file, last, deleted, projects, llm>>

\* index = self._load_index()
LoadIndex(p) ==
    /\ procs[p].pc = "load"
    /\ procs' = [procs EXCEPT ![p].pc = "save", ![p].index = _load_index(FS)]
    /\ UNCHANGED <<files, index_file, last, deleted, projects, llm>>

\* index.add_entry(entry); self._save_index(index); return char_dir
SaveIndex(p) ==
    /\ procs[p].pc = "save"
    /\ index_file' = save_entry(FS, procs[p].index, procs[p].character).index
    /\ Finish(p, "ok")
    /\ UNCHANGED <<files, last, deleted, projects, llm>>

NextConcurrent ==
    \/ \E p \in Procs : CheckExists(p)
    \/ \E p \in Procs : Mkdir(p)
    \/ \E p \in Procs : WriteRecord(p)
    \/ \E p \in Procs : LoadIndex(p)
    \/ \E p \in Procs : SaveIndex(p)

SpecConcurrent == InitConcurrent /\ [][NextConcurrent]_vars

-----------------------------------------------------------------------------
(* Claims about concurrent creation *)

\* The two processes create characters of different names.
DifferentNames ==
    Lower(procs[1].character.basics.name) # Lower(procs[2].character.basics.name)

\* Process p takes its last step, the save of the index.
Saves(p) == procs[p].pc = "save" /\ procs'[p].pc = "done"

\* C24: without a lock two processes creating two different names can
\* interleave index load and index save so that both record files exist
\* and the index holds one entry only; the character missing from the
\* index is still returned by get_character.  As a property of every step:
\* a save by p of an index loaded before q's entry was written drops q's
\* entry, while q's record stays on disk and get_character finds it.
C24_LostUpdate ==
    [][ \A p, q \in Procs :
          (DifferentNames /\ Saves(p)
             /\ get_entry(_load_index(FS), procs[q].character.basics.name) # None
             /\ get_entry(procs[p].index, procs[q].character.basics.name) = None)
          => /\ get_entry(_load_index(FS'), procs[q].character.basics.name) = None
             /\ FileExists(FS', DirOf(q))
             /\ get_character(FS', procs[q].character.basics.name).err = "ok" ]_vars

\* C24, the case reached: both calls have returned, both record files
\* exist, the index holds one entry, and get_character returns the
\* character that has none.
C24_Witness ==
    /\ DifferentNames
    /\ \A p \in Procs : procs[p].pc = "done" /\ procs[p].err = "ok"
    /\ \A p \in Procs : FileExists(FS, DirOf(p))
    /\ Len(_load_index(FS)) = 1
    /\ \E q \in Procs :
          /\ get_entry(_load_index(FS), procs[q].character.basics.name) = None
          /\ get_character(FS, procs[q].character.basics.name).err = "ok"

\* The two processes create the same name.
SameName == procs[1].character.basics.name = procs[2].character.basics.name

\* Process p is past the creation of its directory.
Won(p) ==
    \/ procs[p].pc \in {"write", "load", "save"}
    \/ procs[p].pc = "done" /\ procs[p].err = "ok"

\* C30: of two processes creating the same name at most one writes the
\* record file and adds the index entry; the other fails at the existence
\* check or at the creation of the directory, and the winner's record is
\* never overwritten.
C30_OneWinner ==
    /\ [](SameName
            => /\ ~(Won(1) /\ Won(2))
               /\ \A p \in Procs :
                     (procs[p].pc = "done" /\ procs[p].err # "ok")
                     => procs[p].err \in {"CharacterExistsError", "FileExistsError"}
               /\ Len(_load_index(FS)) <= 1)
    /\ [][ \A d \in Dirs :
             (SameName /\ FileExists(FS, d)) => files'[d] = files[d] ]_vars

\* C30, the case reached: both calls on one name have returned, one has
\* created the character, the other has failed at the creation of the
\* directory, and the record on disk is the winner's.
C30_Witness ==
    /\ SameName
    /\ procs[1].character # procs[2].character
    /\ \E p, q \in Procs :
          /\ procs[p].pc = "done" /\ procs[p].err = "ok"
          /\ procs[q].pc = "done" /\ procs[q].err = "FileExistsError"
          /\ files[DirOf(p)].doc.basics = procs[p].character.basics
          /\ Len(_load_index(FS)) = 1

-----------------------------------------------------------------------------
(* The assistant: LLMService and its availability cache *)

\* Most requests of one kind that a behaviour sends.
MaxRequests == 3

\* What a request can meet: a status code, or an exception of httpx.
Responses == { "200", "500", "ConnectError", "TimeoutException" }

\* LLMService.__init__: nothing cached, nothing sent
NewService == [_available |-> None, gets |-> 0, posts |-> 0]

\* is_available that asks the server on every call
IsAvailableAsksAgain(l, response) ==
    [err |-> "ok", ret |-> <<response = "200">>,
     llm |-> [l EXCEPT !._available = Some(response = "200"), !.gets = @ + 1]]

\* LLMService.is_available; response is what GET /api/tags meets if sent
is_available(l, response) ==
    IF l._available # None
    THEN [err |-> "ok", ret |-> <<l._available[1]>>, llm |-> l]
    ELSE [err |-> "ok", ret |-> <<response = "200">>,
          llm |-> [l EXCEPT !._available = Some(response = "200"), !.gets = @ + 1]]

\* LLMService.reset_availability_cache
reset_availability_cache(l) == [l EXCEPT !._available = None]

\* LLMService._get_response; response is what POST /api/chat meets
_get_response(l, response) ==
    LET sent == [l EXCEPT !.posts = @ + 1]
    IN  CASE response = "200" -> [err |-> "ok", llm |-> sent]
          [] response = "500" -> [err |-> "HTTPStatusError", llm |-> sent]
          [] response = "TimeoutException" -> [err |-> "LLMTimeoutError", llm |-> sent]
          [] response = "ConnectError" ->
               [err |-> "LLMUnavailableError",
                llm |-> [sent EXCEPT !._available = Some(FALSE)]]

\* _generate that sends the chat request whatever the cache says
GenerateIgnoresCache(l, get_response, post_response) ==
    _get_response(is_available(l, get_response).llm, post_response)

\* LLMService._generate (stream=False), as generate calls it
_generate(l, get_response, post_response) ==
    LET checked == is_available(l, get_response)
    IN  IF ~checked.ret[1]
        THEN [err |-> "LLMUnavailableError", llm |-> checked.llm]
        ELSE _get_response(checked.llm, post_response)

InitAssistant ==
    /\ llm = NewService
    /\ files = [d \in Dirs |-> NoDir]
    /\ index_file = NoFile
    /\ last = Call("none", <<>>, FALSE, "ok", <<>>)
    /\ deleted = {}
    /\ projects = <<>>
    /\ procs = <<>>

IsAvailable(response) ==
    /\ llm.gets < MaxRequests
    /\ \E r \in { is_available(llm, response) } :
          /\ llm' = r.llm
          \* last.name is what the server would answer
          /\ last' = Call("is_available", response, FALSE, r.err, r.ret)
    /\ UNCHANGED <<files, index_file, deleted, projects, procs>>

ResetAvailabilityCache ==
    /\ llm' = reset_availability_cache(llm)
    /\ last' = Call("reset_availability_cache", <<>>, FALSE, "ok", <<>>)
    /\ UNCHANGED <<files, index_file, deleted, projects, procs>>

Generate(get_response, post_response) ==
    /\ llm.gets < MaxRequests
    /\ llm.posts < MaxRequests
    /\ \E r \in { _generate(llm, get_response, post_response) } :
          /\ llm' = r.llm
          /\ last' = Call("generate", <<get_response, post_response>>, FALSE,
                          r.err, <<>>)
    /\ UNCHANGED <<files, index_file, deleted, projects, procs>>

NextAssistant ==
    \/ \E response \in Responses : IsAvailable(response)
    \/ ResetAvailabilityCache
    \/ \E get_response, post_response \in Responses :
           Generate(get_response, post_response)

SpecAssistant == InitAssistant /\ [][NextAssistant]_vars

\* C25: once is_available has produced a result, every later is_available
\* call returns the cached result and sends no request; the cache changes
\* only by reset_availability_cache or by a connection error during
\* generation, which sets it to unavailable; while it says unavailable,
\* generate raises LLMUnavailableError and sends no chat request.
C25_AvailabilityCached ==
    [][ /\ (last'.op = "is_available" /\ llm._available # None)
             => /\ last'.ret = llm._available
                /\ llm' = llm
        /\ (llm._available # None /\ llm'._available # llm._available)
             => \/ last'.op = "reset_availability_cache" /\ llm'._available = None
                \/ /\ last'.op = "generate"
                   /\ last'.err = "LLMUnavailableError"
                   /\ llm'._available = Some(FALSE)
        /\ (last'.op = "generate" /\ llm._available = Some(FALSE))
             => /\ last'.err = "LLMUnavailableError"
                /\ llm' = llm ]_vars

\* C25, the case reached: the cache says unavailable after a request was
\* sent, and generate has been refused without a chat request.
C25_Witness ==
    /\ last.op = "generate"
    /\ last.err = "LLMUnavailableError"
    /\ llm._available = Some(FALSE)
    /\ llm.gets = 1
    /\ llm.posts = 0

-----------------------------------------------------------------------------
(* Directory names, record names and index paths *)

\* Every record file under characters/<d>/ holds a record whose sanitized
\* name is d.
RecordsUnderOwnName(fs) ==
    \A d \in DOMAIN fs.files :
        fs.files[d].kind = "json" =>
            sanitize_for_filesystem(StoredName(fs, d)) = d

\* Every index entry's path is characters/<sanitized entry name>.
PathsFromNames(fs) ==
    LET entries == _load_index(fs)
    IN  \A i \in 1..Len(entries) :
            entries[i].path = PathOf(sanitize_for_filesystem(entries[i].name))

\* C26: after any sequence of create_character, update_character,
\* delete_character and rebuild_index calls, every record file stored under
\* characters/<d>/ holds a record whose sanitized basics.name equals d, and
\* every index entry's path equals characters/<sanitized entry name>.
C26_PathsFollowNames ==
    RecordsUnderOwnName(FS) /\ PathsFromNames(FS)

\* An update under a name with an apostrophe has overwritten the record of
\* the directory the name sanitizes to, and the index lists it.
C26_Witness ==
    /\ last.op = "update" /\ last.err = "ok"
    /\ last.name = <<"A", "'", "l">>
    /\ files[<<"a", "l">>].kind = "json"
    /\ StoredName(FS, <<"a", "l">>) = <<"A", "'", "l">>
    /\ get_entry(_load_index(FS), last.name) # None

\* C27: after any sequence of successful create_character, update_character
\* and delete_character calls, no two index entries have the same path,
\* also when distinct names sanitize to the same directory token.
C27_DistinctPaths ==
    LET entries == _load_index(FS)
    IN  \A i, j \in 1..Len(entries) :
            entries[i].path = entries[j].path => i = j

\* Two names that sanitize to one directory token are both in the index.
C27_Witness ==
    LET entries == _load_index(FS)
    IN  \E i, j \in 1..Len(entries) :
            /\ entries[i].name # entries[j].name
            /\ sanitize_for_filesystem(entries[i].name)
                   = sanitize_for_filesystem(entries[j].name)

\* A record the wizard would hand to create_character under this name.
WizardRecord(name) ==
    Character(name, CHOOSE p \in Profiles : TRUE, <<>>, None)

\* C28: after any sequence of successful create_character, update_character
\* and delete_character calls, character_exists(name) is true exactly when
\* get_character(name) succeeds, and whenever character_exists(name) is
\* false, create_character with that name does not fail with
\* CharacterExistsError.
C28_ExistsAgreesWithLookup ==
    \A name \in Names :
        /\ character_exists(FS, name) <=> get_character(FS, name).err = "ok"
        /\ ~character_exists(FS, name) =>
               create_character(FS, WizardRecord(name)).err # "CharacterExistsError"

\* A character was created and a different name with the same directory
\* token is asked about: the index has no entry for it.
C28_Witness ==
    /\ last.op = "create" /\ last.err = "ok"
    /\ \E name \in Names :
           /\ name # last.name
           /\ sanitize_for_filesystem(name) = sanitize_for_filesystem(last.name)
           /\ ~character_exists(FS, name)

\* The record stored in directory d is the character called name.
IsCharacter(fs, d, name) == Lower(StoredName(fs, d)) = Lower(name)

\* The record stored in directory d has a relationship that targets name.
IsDependent(fs, d, name) == Targets(fs.files[d].doc.relationships, name)

\* The record after is the record before without the relationships that
\* target name: sections and the other relationships, in order, are kept.
KeptButStripped(before, after, name) ==
    /\ after.kind = "json"
    /\ after.doc.basics = before.doc.basics
    /\ after.doc.appearance = before.doc.appearance
    /\ after.doc.personality = before.doc.personality
    /\ after.doc.backstory = before.doc.backstory
    /\ after.doc.relationships
          = StripRelationships(before.doc, name).relationships

\* C29: delete_character(name, force=True) changes only what it must: the
\* record of every character that is neither the deleted one nor a
\* dependent is left unchanged, and each dependent keeps its basics,
\* appearance, personality and backstory and every relationship whose
\* target does not match name, in the original order.
C29_ForcedDeleteFrame ==
    [][ ForcedDeleteReturned(last') =>
          \A d \in DOMAIN files :
              (files[d].kind = "json" /\ ~IsCharacter(FS, d, last'.name)) =>
                  IF IsDependent(FS, d, last'.name)
                  THEN KeptButStripped(files[d], files'[d], last'.name)
                  ELSE files'[d] = files[d] ]_vars

\* A forced delete has returned its dependents while another character's
\* record was in the store.
C29_Witness ==
    /\ ForcedDeleteReturned(last)
    /\ last.ret # <<>>
    /\ \E d \in DOMAIN files :
           files[d].kind = "json" /\ ~IsCharacter(FS, d, last.name)

\* C29 for a name whose directory holds the character of that name: the
\* frame of a forced delete that removes the character it was asked for.
ForcedDeleteFrameOfOwnDirectory ==
    [][ (/\ ForcedDeleteReturned(last')
         /\ \A d \in DOMAIN files :
                (files[d].kind = "json"
                   /\ sanitize_for_filesystem(StoredName(FS, d))
                         = sanitize_for_filesystem(last'.name))
                => IsCharacter(FS, d, last'.name)) =>
          \A d \in DOMAIN files :
              (files[d].kind = "json" /\ ~IsCharacter(FS, d, last'.name)) =>
                  IF IsDependent(FS, d, last'.name)
                  THEN KeptButStripped(files[d], files'[d], last'.name)
                  ELSE files'[d] = files[d] ]_vars

====
